---- MODULE Spec2Model ----
(***************************************************************************)
(* A model of rv's execution dispatch (commands/ruby/run.rs), its Bundler  *)
(* settings resolver (config/bundler_settings.rs) and its rate-limited     *)
(* self-update check (update.rs).                                          *)
(*                                                                         *)
(* The three source files are independent programs as far as their state   *)
(* goes, so each has its own variables, its own initial condition and its  *)
(* own next-state relation:                                                *)
(*   SpecSettings  BundlerSettings::new followed by BundlerSettings::path  *)
(*   SpecRun       run -> run_no_install -> exec / Command::output         *)
(*   SpecResolve   resolve_tool_on_windows on drawn inputs                 *)
(*   SpecUpdate    a sequence of update_if_needed calls                    *)
(* While one of them runs, the variables of the others stay idle.          *)
(***************************************************************************)
EXTENDS Naturals, Integers, Sequences, FiniteSets, TLC

VARIABLES
    \* ---- config/bundler_settings.rs
    spc,            \* position: "start", "constructed", "resolved", "panicked"
    projectFile,    \* what <project_dir>/.bundle/config holds
    homeFile,       \* what <home_dir>/.bundle/config holds
    osEnv,          \* the process environment's BUNDLE_* variables
    local,          \* BundlerSettings.local  (Option<Yaml>)
    global,         \* BundlerSettings.global (Option<Yaml>)
    installPath,    \* the InstallPath that BundlerSettings::path built, if it built one
    pathResult      \* what BundlerSettings::path returned (Option<Utf8PathBuf>)

settingsVars == <<spc, projectFile, homeFile, osEnv, local, global, installPath, pathResult>>

VARIABLES
    \* ---- commands/ruby/run.rs
    rpc,            \* position in run / run_no_install
    platform,       \* the build: "unix" or "windows"  (#[cfg(unix)], #[cfg(windows)])
    invocation,     \* the Invocation: program and env (the overrides)
    no_install,     \* run's no_install
    capture_output, \* "No" or "Both"
    rubyInstalled,  \* whether a runtime matching the request is installed
    files,          \* the files that exist, as the Windows resolver probes them
    procEnv,        \* the calling process's own environment
    unset,          \* the base plan's names to remove
    set,            \* the base plan's (name, value) pairs
    executable_path,\* the program the command is built for
    cmd,            \* the std::process::Command under construction
    child,          \* the child process the dispatch launched, if any
    result,         \* what the call returned, once it has
    callerState,    \* "running", "replaced" (exec succeeded) or "exited"
    exitCode,       \* the code the calling process exited with
    installerInvoked, envFetched, cmdBuilt, launchAttempted   \* what has happened so far

runVars == <<rpc, platform, invocation, no_install, capture_output, rubyInstalled, files,
             procEnv, unset, set, executable_path, cmd, child, result, callerState,
             exitCode, installerInvoked, envFetched, cmdBuilt, launchAttempted>>

VARIABLES
    \* ---- update.rs
    upc,            \* position in update_if_needed: "idle" between calls
    now,            \* the system clock, in seconds since the epoch
    now_secs,       \* the clock as the call in progress read it
    timestampFile,  \* what <config_dir>/last_update_check holds, if it exists
    minutes,        \* the minutes the last skipped call logged
    checkTimes,     \* the times at which the update checks so far started
    checkOutcome    \* how the last update check ended

updateVars == <<upc, now, now_secs, timestampFile, minutes, checkTimes, checkOutcome>>

vars == <<settingsVars, runVars, updateVars>>

\* Bounds of the model.
MaxSet == 2         \* the longest base set list drawn
MaxOverrides == 2   \* the longest invocation.env drawn
MaxNow == 8000      \* the clock stops here

(***************************************************************************)
(* Option<T>                                                               *)
(***************************************************************************)
None == [some |-> FALSE]
Some(x) == [some |-> TRUE, v |-> x]
is_none(o) == ~o.some
is_some(o) == o.some
\* Option::unwrap_or
unwrap_or(o, d) == IF o.some THEN o.v ELSE d
\* bool::then_some
then_some(b, x) == IF b THEN Some(x) ELSE None

(***************************************************************************)
(* YAML documents (saphyr::Yaml), as far as the resolver looks at them.    *)
(***************************************************************************)
YMissing == [t |-> "missing"]           \* the mapping has no such key
YStr(s) == [t |-> "str", s |-> s]       \* a string scalar
YBool(b) == [t |-> "bool", b |-> b]     \* a boolean scalar
YInt == [t |-> "int"]                   \* any scalar that is neither
YMapping(m) == [t |-> "mapping", map |-> m]

\* The values drawn for each key of a configuration file.
YamlPathValues == {YMissing, YStr("foo"), YStr("bar"), YStr(""), YInt}
YamlBoolValues == {YMissing, YBool(TRUE), YBool(FALSE), YStr("true")}
YamlFlagValues == {YMissing, YBool(TRUE), YBool(FALSE)}

Mappings ==
    { YMapping([BUNDLE_PATH |-> p, BUNDLE_PATH__SYSTEM |-> s, BUNDLE_DEPLOYMENT |-> d]) :
        p \in YamlPathValues, s \in YamlBoolValues, d \in YamlFlagValues }

\* The states of a .bundle/config file: no regular file; a file that cannot be
\* read as UTF-8 text; text that is not YAML; YAML with no document (an empty
\* file, only comments); a first document whose root is `root`.
FileAbsent == [kind |-> "absent"]
FileUnreadable == [kind |-> "unreadable"]
FileUnparsable == [kind |-> "unparsable"]
FileEmptyStream == [kind |-> "empty_stream"]
FileDoc(root) == [kind |-> "doc", root |-> root]

ConfigFiles ==
    {FileAbsent, FileUnreadable, FileUnparsable, FileEmptyStream, FileDoc(YStr("text"))}
        \cup { FileDoc(m) : m \in Mappings }

(***************************************************************************)
(* The process environment: a variable is unset, holds Unicode text, or     *)
(* holds bytes that are not Unicode.                                       *)
(***************************************************************************)
EnvUnset == [t |-> "unset"]
EnvText(s) == [t |-> "unicode", s |-> s]
EnvNotUnicode == [t |-> "not_unicode"]

EnvPathValues == {EnvUnset, EnvText("x"), EnvText("/abs"), EnvNotUnicode}
EnvBoolValues == {EnvUnset, EnvText("true"), EnvText("false"), EnvText("yes"), EnvNotUnicode}

Environments ==
    { [BUNDLE_PATH |-> p, BUNDLE_PATH__SYSTEM |-> s, BUNDLE_DEPLOYMENT |-> d] :
        p \in EnvPathValues, s \in EnvBoolValues, d \in EnvBoolValues }

(***************************************************************************)
(* std::path::absolute on the paths drawn above.  A path is a sequence of  *)
(* components; the working directory is one component, "cwd".              *)
(***************************************************************************)
Ok(x) == [ok |-> TRUE, v |-> x]
Err(e) == [ok |-> FALSE, e |-> e]

Cwd == <<"cwd">>
AbsolutePaths == {"/abs"}

absolute(p) ==
    IF p = "" THEN Err("empty path")
    ELSE IF p \in AbsolutePaths THEN Ok(<<p>>)
    ELSE Ok(Cwd \o <<p>>)

(***************************************************************************)
(* InstallPath::path                                                       *)
(***************************************************************************)
InstallPath(explicit_path, use_system_gems) ==
    [explicit_path |-> explicit_path, use_system_gems |-> use_system_gems]

\* A resolver that lets an explicit path beat the use-system flag.
InstallPath_path_explicit_first(self) ==
    LET base_path == IF is_some(self.explicit_path)
                     THEN absolute(self.explicit_path.v)
                     ELSE absolute(".bundle")
    IN  IF self.use_system_gems /\ is_none(self.explicit_path) THEN None
        ELSE IF ~base_path.ok THEN None
        ELSE Some(base_path.v)

InstallPath_path(self) ==
    IF self.use_system_gems THEN None
    ELSE LET base_path == IF is_some(self.explicit_path)
                          THEN absolute(self.explicit_path.v)
                          ELSE absolute(".bundle")
         IN  IF ~base_path.ok THEN None
             ELSE Some(base_path.v)   \* the paths drawn are UTF-8: from_path_buf is Ok

(***************************************************************************)
(* Reading one setting                                                     *)
(***************************************************************************)
contains_mapping_key(settings, key) == settings.map[key].t # "missing"

get_string_file_config(settings, key) ==
    IF contains_mapping_key(settings, key) /\ settings.map[key].t = "str"
    THEN Some(settings.map[key].s)
    ELSE None

get_bool_file_config(settings, key) ==
    IF contains_mapping_key(settings, key) /\ settings.map[key].t = "bool"
    THEN Some(settings.map[key].b)
    ELSE None

\* std::env::var(key).ok(): a variable that is unset or not Unicode is None.
get_string_env_config(env, key) ==
    IF env[key].t = "unicode" THEN Some(env[key].s) ELSE None

\* bool::from_str: exactly "true" and "false" parse.
bool_from_str(s) ==
    IF s = "true" THEN Ok(TRUE)
    ELSE IF s = "false" THEN Ok(FALSE)
    ELSE Err("ParseBoolError")

\* Result<bool, _>::unwrap_or_default
unwrap_or_default(r) == IF r.ok THEN r.v ELSE FALSE

\* A reader that drops a value that does not parse: and_then(|v| from_str(v).ok()).
get_bool_env_config_strict(env, key) ==
    LET s == get_string_env_config(env, key)
    IN  IF is_some(s) /\ bool_from_str(s.v).ok THEN Some(bool_from_str(s.v).v) ELSE None

get_bool_env_config(env, key) ==
    LET s == get_string_env_config(env, key)
    IN  IF is_some(s) THEN Some(unwrap_or_default(bool_from_str(s.v))) ELSE None

(***************************************************************************)
(* The three layers: (path, path_system, deployment)                       *)
(***************************************************************************)
path_config(settings) ==
    IF is_none(settings) THEN <<None, None, None>>
    ELSE << get_string_file_config(settings.v, "BUNDLE_PATH"),
            get_bool_file_config(settings.v, "BUNDLE_PATH__SYSTEM"),
            get_bool_file_config(settings.v, "BUNDLE_DEPLOYMENT") >>

local_path_config(self) == path_config(self.local)

global_path_config(self) == path_config(self.global)

env_path_config(env) ==
    << get_string_env_config(env, "BUNDLE_PATH"),
       get_bool_env_config(env, "BUNDLE_PATH__SYSTEM"),
       get_bool_env_config(env, "BUNDLE_DEPLOYMENT") >>

(***************************************************************************)
(* BundlerSettings::path.  path_policy is the loop over [local, env,       *)
(* global] from layer i on, with the deployment flag recorded so far, and  *)
(* the code after the loop; it yields the InstallPath the function builds, *)
(* or None where `use_deployment?` returns early.                          *)
(***************************************************************************)
RECURSIVE path_policy_last_flag(_, _, _)
path_policy_last_flag(layers, i, use_deployment) ==
    IF i > Len(layers)
    THEN IF is_none(use_deployment) THEN None
         ELSE Some(InstallPath(then_some(use_deployment.v, "vendor/bundle"),
                               ~use_deployment.v))
    ELSE LET path == layers[i][1]
             path_system == layers[i][2]
             deployment == layers[i][3]
             use_deployment1 == IF is_some(deployment) THEN deployment ELSE use_deployment
         IN  IF is_none(path) /\ is_none(path_system)
             THEN path_policy_last_flag(layers, i + 1, use_deployment1)
             ELSE Some(InstallPath(path, unwrap_or(path_system, is_none(path))))

RECURSIVE path_policy(_, _, _)
path_policy(layers, i, use_deployment) ==
    IF i > Len(layers)
    THEN \* after the loop: `let use_deployment = use_deployment?;`
         IF is_none(use_deployment) THEN None
         ELSE Some(InstallPath(then_some(use_deployment.v, "vendor/bundle"),
                               ~use_deployment.v))
    ELSE LET path == layers[i][1]
             path_system == layers[i][2]
             deployment == layers[i][3]
             use_deployment1 == IF is_none(use_deployment) THEN deployment ELSE use_deployment
         IN  IF is_none(path) /\ is_none(path_system)
             THEN path_policy(layers, i + 1, use_deployment1)
             ELSE Some(InstallPath(path, unwrap_or(path_system, is_none(path))))

\* The layers in the order the loop visits them.
path_layers_env_first(self, env) ==
    <<env_path_config(env), local_path_config(self), global_path_config(self)>>

path_layers(self, env) ==
    <<local_path_config(self), env_path_config(env), global_path_config(self)>>

BundlerSettings_policy(self, env) == path_policy(path_layers(self, env), 1, None)

BundlerSettings_path(self, env) ==
    LET install_path == BundlerSettings_policy(self, env)
    IN  IF is_none(install_path) THEN None ELSE InstallPath_path(install_path.v)

(***************************************************************************)
(* BundlerSettings::config_for_dir and BundlerSettings::new                *)
(***************************************************************************)
Panic == [panic |-> TRUE]
Returned(x) == [panic |-> FALSE, v |-> x]

config_for_dir(file) ==
    IF file.kind = "absent" THEN Returned(None)              \* !config_file.is_file()
    ELSE IF file.kind = "unreadable" THEN Returned(None)     \* read_to_string(..).ok()?
    ELSE IF file.kind = "unparsable" THEN Panic              \* load_from_str(..).unwrap()
    ELSE IF file.kind = "empty_stream" THEN Panic            \* doc[0] of an empty Vec
    ELSE IF file.root.t # "mapping" THEN Returned(None)      \* !settings.is_mapping()
    ELSE Returned(Some(file.root))

\* BundlerSettings::new(home_dir, project_dir)
New ==
    /\ spc = "start"
    /\ LET l == config_for_dir(projectFile)
           g == config_for_dir(homeFile)
       IN  IF l.panic \/ g.panic
           THEN /\ spc' = "panicked"
                /\ UNCHANGED <<local, global>>
           ELSE /\ spc' = "constructed"
                /\ local' = l.v
                /\ global' = g.v
    /\ UNCHANGED <<projectFile, homeFile, osEnv, installPath, pathResult>>
    /\ UNCHANGED <<runVars, updateVars>>

\* BundlerSettings::path(&self)
Path ==
    /\ spc = "constructed"
    /\ installPath' = BundlerSettings_policy([local |-> local, global |-> global], osEnv)
    /\ pathResult' = BundlerSettings_path([local |-> local, global |-> global], osEnv)
    /\ spc' = "resolved"
    /\ UNCHANGED <<projectFile, homeFile, osEnv, local, global>>
    /\ UNCHANGED <<runVars, updateVars>>

(***************************************************************************)
(* commands/ruby/run.rs                                                    *)
(*                                                                         *)
(* An environment value is a sequence of tokens; the token ";" is the      *)
(* separator std::env::split_paths splits a search path at.  A file path   *)
(* is [dir, name, ext]: the directory (tokens, empty for none), the file   *)
(* stem and the extension (an Option).                                     *)
(***************************************************************************)
Names == {"PATH", "GEM_HOME"}

FilePath(dir, name, ext) == [dir |-> dir, name |-> name, ext |-> ext]

\* Program::Ruby and Program::Tool { executable_path, extra_paths }
ProgramRuby == [kind |-> "Ruby"]
ProgramTool(executable, extra) ==
    [kind |-> "Tool", executable_path |-> executable, extra_paths |-> extra]

\* Invocation::ruby(env) and Invocation::tool(executable, env)
Invocation_ruby(env) == [program |-> ProgramRuby, env |-> env]
Invocation_tool(executable, env) == [program |-> ProgramTool(executable, <<>>), env |-> env]

\* ruby.executable_path() of the matched runtime
RubyExecutable == FilePath(<<"rubies">>, "ruby", None)

\* Utf8Path::extension
extension(executable) == executable.ext

\* std::env::split_paths: the pieces between the separators, empty ones included.
RECURSIVE split_paths(_)
split_paths(value) ==
    LET seps == {i \in 1..Len(value) : value[i] = ";"}
    IN  IF seps = {} THEN <<value>>
        ELSE LET i == CHOOSE k \in seps : \A j \in seps : k <= j
             IN  <<SubSeq(value, 1, i - 1)>> \o split_paths(SubSeq(value, i + 1, Len(value)))

\* env_vars.iter().find(|(k, _)| *k == "PATH").map(|(_, v)| v.as_str()).unwrap_or("")
path_value_of(env_vars) ==
    LET hits == {i \in 1..Len(env_vars) : env_vars[i][1] = "PATH"}
    IN  IF hits = {} THEN <<>>
        ELSE env_vars[CHOOSE k \in hits : \A j \in hits : k <= j][2]

extensions == <<"exe", "cmd", "bat">>

\* The two nested loops of resolve_tool_on_windows from directory d, extension e
\* on: the first candidate that exists, or the executable as it was given.
RECURSIVE search_ext_first(_, _, _, _)
search_ext_first(executable, dirs, d, e) ==
    IF e > Len(extensions) THEN executable
    ELSE IF d > Len(dirs) THEN search_ext_first(executable, dirs, 1, e + 1)
    ELSE LET candidate == FilePath(dirs[d], executable.name, Some(extensions[e]))
         IN  IF candidate \in files THEN candidate
             ELSE search_ext_first(executable, dirs, d + 1, e)

RECURSIVE search(_, _, _, _)
search(executable, dirs, d, e) ==
    IF d > Len(dirs) THEN executable
    ELSE IF e > Len(extensions) THEN search(executable, dirs, d + 1, 1)
    ELSE LET candidate == FilePath(dirs[d], executable.name, Some(extensions[e]))
         IN  IF candidate \in files     \* candidate.exists(); the path is UTF-8
             THEN candidate
             ELSE search(executable, dirs, d, e + 1)

resolve_tool_on_windows(executable, env_vars) ==
    IF is_some(extension(executable)) THEN executable
    ELSE search(executable, split_paths(path_value_of(env_vars)), 1, 1)

(***************************************************************************)
(* std::process::Command, as far as run_no_install drives it: the program, *)
(* the changes to the inherited environment, the working directory.        *)
(***************************************************************************)
EnvInherit == [op |-> "inherit"]
EnvRemove == [op |-> "remove"]
EnvSet(v) == [op |-> "set", v |-> v]

Command_new(program) ==
    [program |-> program, env |-> [n \in Names |-> EnvInherit], current_dir |-> None]
NoCommand == [program |-> "none"]

\* cmd.env_remove(var) and cmd.env(key, val)
Command_env_remove(c, var) == [c EXCEPT !.env[var] = EnvRemove]
Command_env(c, key, val) == [c EXCEPT !.env[key] = EnvSet(val)]

\* for var in unset { cmd.env_remove(var); }
RECURSIVE remove_all(_, _)
remove_all(c, names) ==
    IF names = <<>> THEN c ELSE remove_all(Command_env_remove(c, Head(names)), Tail(names))

\* for (key, val) in pairs { cmd.env(key, val); }
RECURSIVE set_all(_, _)
set_all(c, pairs) ==
    IF pairs = <<>> THEN c ELSE set_all(Command_env(c, Head(pairs)[1], Head(pairs)[2]), Tail(pairs))

\* The three loops with the overrides applied before the base plan's pairs.
assemble_overrides_first(c, un, st, overrides) ==
    set_all(set_all(remove_all(c, un), overrides), st)

\* The three loops of run_no_install, in the order the code runs them.
assemble(c, un, st, overrides) ==
    set_all(set_all(remove_all(c, un), st), overrides)

\* The environment a child of this command starts with: the caller's own, changed
\* as the command says.
child_env(c) ==
    [n \in Names |->
        IF c.env[n].op = "set" THEN Some(c.env[n].v)
        ELSE IF c.env[n].op = "remove" THEN None
        ELSE procEnv[n]]

(***************************************************************************)
(* What a call returns, and what becomes of a child.                       *)
(***************************************************************************)
NoResult == [kind |-> "none"]
ResultOk(output) == [kind |-> "Ok", output |-> output]
ResultErr(e) == [kind |-> "Err", error |-> e]

Output(status, stdout, stderr) == [status |-> status, stdout |-> stdout, stderr |-> stderr]
\* An exit status: the exit code, or None for a child that ended without one.
ExitStatuses == {Some(0), Some(3), None}
Streams == {"", "text"}

NoChild == [spawned |-> FALSE]
Child(program, environment, dir, status, stdout, stderr) ==
    [spawned |-> TRUE, program |-> program, env |-> environment, current_dir |-> dir,
     status |-> status, stdout |-> stdout, stderr |-> stderr]

\* The locals of run_no_install are dropped when it returns.
DropLocals ==
    /\ unset' = <<>>
    /\ set' = <<>>
    /\ executable_path' = None
    /\ cmd' = NoCommand

Return(r) ==
    /\ result' = r
    /\ rpc' = "returned"
    /\ DropLocals

runInputs == <<platform, invocation, no_install, capture_output, files, procEnv>>

\* run, line 83: Config::new(global_args, request)?
ConfigNew ==
    /\ rpc = "run"
    /\ \/ /\ Return(ResultErr("ConfigError"))
       \/ /\ rpc' = "config"
          /\ UNCHANGED <<unset, set, executable_path, cmd, result>>
    /\ UNCHANGED <<runInputs, rubyInstalled, child, callerState, exitCode,
                   installerInvoked, envFetched, cmdBuilt, launchAttempted>>
    /\ UNCHANGED <<settingsVars, updateVars>>

\* config.current_ruby()
current_ruby == rubyInstalled

\* run, line 86: whether the installer is to be invoked.
must_install == ~current_ruby /\ ~no_install

\* run, lines 86-102: the runtime is not installed and installing is allowed, so the
\* installer runs; it fails (InstallError) or returns, and what it installed may or
\* may not be what current_ruby() finds afterwards.
Install ==
    /\ rpc = "config"
    /\ must_install
    /\ installerInvoked' = TRUE
    /\ \/ /\ Return(ResultErr("InstallError"))
          /\ UNCHANGED rubyInstalled
       \/ /\ rubyInstalled' \in BOOLEAN
          /\ rpc' = "run_no_install"
          /\ UNCHANGED <<unset, set, executable_path, cmd, result>>
    /\ UNCHANGED <<runInputs, child, callerState, exitCode, envFetched, cmdBuilt,
                   launchAttempted>>
    /\ UNCHANGED <<settingsVars, updateVars>>

\* run, lines 86 and 103: nothing to install, on to run_no_install.
SkipInstall ==
    /\ rpc = "config"
    /\ ~must_install
    /\ rpc' = "run_no_install"
    /\ UNCHANGED <<runInputs, rubyInstalled, unset, set, executable_path, cmd, child, result,
                   callerState, exitCode, installerInvoked, envFetched, cmdBuilt,
                   launchAttempted>>
    /\ UNCHANGED <<settingsVars, updateVars>>

\* run_no_install, line 114: config.current_ruby().ok_or(Error::NoMatchingRuby)?
CurrentRubyUnchecked ==
    /\ rpc = "run_no_install"
    /\ rpc' = "matched"
    /\ UNCHANGED <<runInputs, rubyInstalled, unset, set, executable_path, cmd, child, result,
                   callerState, exitCode, installerInvoked, envFetched, cmdBuilt,
                   launchAttempted>>
    /\ UNCHANGED <<settingsVars, updateVars>>

CurrentRuby ==
    /\ rpc = "run_no_install"
    /\ IF current_ruby
       THEN /\ rpc' = "matched"
            /\ UNCHANGED <<unset, set, executable_path, cmd, result>>
       ELSE Return(ResultErr("NoMatchingRuby"))
    /\ UNCHANGED <<runInputs, rubyInstalled, child, callerState, exitCode,
                   installerInvoked, envFetched, cmdBuilt, launchAttempted>>
    /\ UNCHANGED <<settingsVars, updateVars>>

\* The base plans config.env_for / config.env_with_path_for may return.
UnsetLists == {<<>>, <<"PATH">>, <<"GEM_HOME">>, <<"PATH", "GEM_HOME">>}
Values == {<<"d1">>, <<"d2", ";", "d1">>}
Pairs == Names \X Values
SeqsUpTo(S, n) == UNION {[1..k -> S] : k \in 0..n}

\* run_no_install, lines 115-132: the base plan is asked of the configuration, which
\* fails (ConfigError) or returns (unset, set); the executable is the runtime's own
\* or the tool's, resolved on Windows against the plan's set list.
EnvFor ==
    /\ rpc = "matched"
    /\ \/ /\ Return(ResultErr("ConfigError"))
          /\ UNCHANGED envFetched
       \/ \E un \in UnsetLists, st \in SeqsUpTo(Pairs, MaxSet) :
            /\ envFetched' = TRUE
            /\ unset' = un
            /\ set' = st
            /\ executable_path' =
                 IF invocation.program.kind = "Ruby" THEN Some(RubyExecutable)
                 ELSE IF platform = "windows"
                      THEN Some(resolve_tool_on_windows(invocation.program.executable_path, st))
                      ELSE Some(invocation.program.executable_path)
            /\ rpc' = "build"
            /\ UNCHANGED <<cmd, result>>
    /\ UNCHANGED <<runInputs, rubyInstalled, child, callerState, exitCode, installerInvoked,
                   cmdBuilt, launchAttempted>>
    /\ UNCHANGED <<settingsVars, updateVars>>

CwdArgs == {None, Some("work")}

\* run_no_install, lines 133-146: the command is built.
BuildCommand ==
    /\ rpc = "build"
    /\ \E cwd \in CwdArgs :
         cmd' = [assemble(Command_new(executable_path.v), unset, set, invocation.env)
                    EXCEPT !.current_dir = cwd]
    /\ cmdBuilt' = TRUE
    /\ rpc' = "dispatch"
    /\ UNCHANGED <<runInputs, rubyInstalled, unset, set, executable_path, child, result,
                   callerState, exitCode, installerInvoked, envFetched, launchAttempted>>
    /\ UNCHANGED <<settingsVars, updateVars>>

\* The child a command starts, with the status it ends with and what it writes to
\* its standard output and standard error.
Children(c) ==
    { Child(c.program, child_env(c), c.current_dir, st, out, err) :
        st \in ExitStatuses, out \in Streams, err \in Streams }

\* run_no_install, line 159: CaptureOutput::Both => Ok(cmd.output()?)
CaptureBoth ==
    /\ rpc = "dispatch"
    /\ capture_output = "Both"
    /\ launchAttempted' = TRUE
    /\ \/ /\ Return(ResultErr("ExecError"))
          /\ UNCHANGED child
       \/ \E ch \in Children(cmd) :
            /\ child' = ch
            /\ Return(ResultOk(Output(ch.status, ch.stdout, ch.stderr)))
    /\ UNCHANGED <<runInputs, rubyInstalled, callerState, exitCode, installerInvoked,
                   envFetched, cmdBuilt>>
    /\ UNCHANGED <<settingsVars, updateVars>>

\* What exec (unix) returns when cmd.exec() comes back: Err(cmd.exec().into()).
exec_unix_failed == ResultErr("ExecError")

\* run_no_install, lines 150-158, with exec of lines 206-210: the process image is
\* replaced, or cmd.exec() returns its error.
ExecUnix ==
    /\ rpc = "dispatch"
    /\ capture_output = "No"
    /\ platform = "unix"
    /\ launchAttempted' = TRUE
    /\ \/ /\ Return(exec_unix_failed)
          /\ UNCHANGED <<child, callerState>>
       \/ \E ch \in Children(cmd) :
            /\ child' = ch
            /\ callerState' = "replaced"
            /\ rpc' = "replaced"
            /\ DropLocals
            /\ UNCHANGED result
    /\ UNCHANGED <<runInputs, rubyInstalled, exitCode, installerInvoked, envFetched, cmdBuilt>>
    /\ UNCHANGED <<settingsVars, updateVars>>

\* std::process::exit(status.code().unwrap_or(1))
exit_code_zero(status) == unwrap_or(status, 0)

exit_code(status) == unwrap_or(status, 1)

\* run_no_install, lines 150-158, with exec of lines 212-221: cmd.status()? fails,
\* or the child runs to its end and the calling process exits with its code.
ExecWindows ==
    /\ rpc = "dispatch"
    /\ capture_output = "No"
    /\ platform = "windows"
    /\ launchAttempted' = TRUE
    /\ \/ /\ Return(ResultErr("ExecError"))
          /\ UNCHANGED <<child, callerState, exitCode>>
       \/ \E ch \in Children(cmd) :
            /\ child' = ch
            /\ callerState' = "exited"
            /\ exitCode' = Some(exit_code(ch.status))
            /\ rpc' = "exited"
            /\ DropLocals
            /\ UNCHANGED result
    /\ UNCHANGED <<runInputs, rubyInstalled, installerInvoked, envFetched, cmdBuilt>>
    /\ UNCHANGED <<settingsVars, updateVars>>

NextRun ==
    \/ ConfigNew \/ Install \/ SkipInstall \/ CurrentRuby \/ EnvFor \/ BuildCommand
    \/ CaptureBoth \/ ExecUnix \/ ExecWindows

\* The tools and the file systems drawn for a run.
Irb == FilePath(<<>>, "irb", None)
RunFiles == { {FilePath(<<"d1">>, "irb", Some("cmd"))} }
ProcEnvs == { [n \in Names |-> IF n = "PATH" THEN Some(<<"p">>) ELSE None] }

InitRun ==
    /\ rpc = "run"
    /\ platform \in {"unix", "windows"}
    /\ invocation \in { Invocation_ruby(e) : e \in SeqsUpTo(Pairs, MaxOverrides) }
                        \cup { Invocation_tool(Irb, e) : e \in SeqsUpTo(Pairs, MaxOverrides) }
    /\ no_install \in BOOLEAN
    /\ capture_output \in {"No", "Both"}
    /\ rubyInstalled \in BOOLEAN
    /\ files \in RunFiles
    /\ procEnv \in ProcEnvs
    /\ unset = <<>>
    /\ set = <<>>
    /\ executable_path = None
    /\ cmd = NoCommand
    /\ child = NoChild
    /\ result = NoResult
    /\ callerState = "running"
    /\ exitCode = None
    /\ installerInvoked = FALSE
    /\ envFetched = FALSE
    /\ cmdBuilt = FALSE
    /\ launchAttempted = FALSE

RunIdle ==
    /\ rpc = "idle"
    /\ platform = "unix"
    /\ invocation = Invocation_ruby(<<>>)
    /\ no_install = FALSE
    /\ capture_output = "No"
    /\ rubyInstalled = FALSE
    /\ files = {}
    /\ procEnv = [n \in Names |-> None]
    /\ unset = <<>>
    /\ set = <<>>
    /\ executable_path = None
    /\ cmd = NoCommand
    /\ child = NoChild
    /\ result = NoResult
    /\ callerState = "running"
    /\ exitCode = None
    /\ installerInvoked = FALSE
    /\ envFetched = FALSE
    /\ cmdBuilt = FALSE
    /\ launchAttempted = FALSE

(***************************************************************************)
(* resolve_tool_on_windows on its own: the tool, the set list it is given, *)
(* the files that exist and the caller's own PATH are drawn, and the       *)
(* function is applied.                                                    *)
(***************************************************************************)
RakeBat == FilePath(<<>>, "rake", Some("bat"))
ResolveTools == {Irb, RakeBat}
SearchPaths == {<<>>, <<"d1">>, <<"d1", ";", "d2">>, <<"d2", ";", "d1">>, <<"d2", ";", ";", "d1">>}
ResolvePairs == ({"PATH"} \X SearchPaths) \cup {<<"GEM_HOME", <<"d1">>>>}
ProbedFiles ==
    { FilePath(d, "irb", Some(e)) : d \in {<<"d1">>, <<"d2">>}, e \in {"exe", "cmd", "bat"} }
        \cup { FilePath(<<>>, "irb", Some("cmd")) }

InitResolve ==
    /\ rpc = "resolve"
    /\ platform = "windows"
    /\ invocation \in { Invocation_tool(t, <<>>) : t \in ResolveTools }
    /\ no_install = FALSE
    /\ capture_output = "No"
    /\ rubyInstalled = TRUE
    /\ files \in SUBSET ProbedFiles
    /\ procEnv \in { [n \in Names |-> IF n = "PATH" THEN Some(<<"d2">>) ELSE None],
                     [n \in Names |-> None] }
    /\ unset = <<>>
    /\ set \in SeqsUpTo(ResolvePairs, MaxSet)
    /\ executable_path = None
    /\ cmd = NoCommand
    /\ child = NoChild
    /\ result = NoResult
    /\ callerState = "running"
    /\ exitCode = None
    /\ installerInvoked = FALSE
    /\ envFetched = TRUE
    /\ cmdBuilt = FALSE
    /\ launchAttempted = FALSE

\* run_no_install, line 128: resolve_tool_on_windows(&executable_path, &set)
Resolve ==
    /\ rpc = "resolve"
    /\ executable_path' = Some(resolve_tool_on_windows(invocation.program.executable_path, set))
    /\ rpc' = "resolved"
    /\ UNCHANGED <<runInputs, rubyInstalled, unset, set, cmd, child, result, callerState,
                   exitCode, installerInvoked, envFetched, cmdBuilt, launchAttempted>>
    /\ UNCHANGED <<settingsVars, updateVars>>

NextResolve == Resolve

(***************************************************************************)
(* update.rs: calls of update_if_needed, one after the other, under a      *)
(* clock that never goes back.  Reading and writing the timestamp file     *)
(* succeed, and the file holds what an earlier call wrote, if it exists.   *)
(***************************************************************************)
CHECK_INTERVAL_SECS == 60 * 60

\* The clock advances by one of these between calls and while a check runs.
ClockSteps == {1800, 3599, 3600, 3601}

\* update_if_needed, line 31: whether this call skips the update check.
skips_check_inclusive(secs, last_check) ==
    secs >= last_check /\ secs - last_check <= CHECK_INTERVAL_SECS

skips_check(secs, last_check) ==
    secs >= last_check /\ secs - last_check < CHECK_INTERVAL_SECS

Tick ==
    /\ upc \in {"idle", "checking"}
    /\ \E d \in ClockSteps :
         /\ now + d <= MaxNow
         /\ now' = now + d
    /\ UNCHANGED <<upc, now_secs, timestampFile, minutes, checkTimes, checkOutcome>>
    /\ UNCHANGED <<settingsVars, runVars>>

\* update_if_needed, lines 11-39: the clock is read; if the timestamp file exists and
\* the last check is less than the interval back, the call returns.
Begin ==
    /\ upc = "idle"
    /\ now_secs' = now
    /\ IF is_some(timestampFile) /\ skips_check(now, timestampFile.v)
       THEN /\ minutes' = Some((now - timestampFile.v) \div 60)
            /\ upc' = "idle"
       ELSE /\ upc' = "write"
            /\ UNCHANGED minutes
    /\ UNCHANGED <<now, timestampFile, checkTimes, checkOutcome>>
    /\ UNCHANGED <<settingsVars, runVars>>

\* update_if_needed, line 41: fs::write(&update_timestamp_file, now_secs.to_string())
WriteTimestamp ==
    /\ upc = "write"
    /\ timestampFile' = Some(now_secs)
    /\ upc' = "check"
    /\ UNCHANGED <<now, now_secs, minutes, checkTimes, checkOutcome>>
    /\ UNCHANGED <<settingsVars, runVars>>

\* update_if_needed, lines 43-46: the updater is set up and asked whether an update
\* is needed.
StartCheck ==
    /\ upc = "check"
    /\ checkTimes' = Append(checkTimes, now_secs)
    /\ upc' = "checking"
    /\ UNCHANGED <<now, now_secs, timestampFile, minutes, checkOutcome>>
    /\ UNCHANGED <<settingsVars, runVars>>

\* update_if_needed, lines 46-56: no update is needed, or the update runs and succeeds
\* or fails, or an unwrap panics; either way the call is over.
FinishCheck ==
    /\ upc = "checking"
    /\ checkOutcome' \in {"no update needed", "updated", "update failed", "panicked"}
    /\ upc' = "idle"
    /\ UNCHANGED <<now, now_secs, timestampFile, minutes, checkTimes>>
    /\ UNCHANGED <<settingsVars, runVars>>

NextUpdate == Tick \/ Begin \/ WriteTimestamp \/ StartCheck \/ FinishCheck

InitUpdate ==
    /\ upc = "idle"
    /\ now \in {0, 4000}
    /\ now_secs = 0
    /\ timestampFile \in {None, Some(0), Some(3000), Some(7000)}
    /\ minutes = None
    /\ checkTimes = <<>>
    /\ checkOutcome = "none"

UpdateIdle ==
    /\ upc = "off"
    /\ now = 0
    /\ now_secs = 0
    /\ timestampFile = None
    /\ minutes = None
    /\ checkTimes = <<>>
    /\ checkOutcome = "none"

(***************************************************************************)
(* The specifications                                                      *)
(***************************************************************************)
SettingsIdle ==
    /\ spc = "idle"
    /\ projectFile = FileAbsent
    /\ homeFile = FileAbsent
    /\ osEnv = [BUNDLE_PATH |-> EnvUnset, BUNDLE_PATH__SYSTEM |-> EnvUnset,
                BUNDLE_DEPLOYMENT |-> EnvUnset]
    /\ local = None
    /\ global = None
    /\ installPath = None
    /\ pathResult = None

InitSettings ==
    /\ spc = "start"
    /\ projectFile \in ConfigFiles
    /\ homeFile \in ConfigFiles
    /\ osEnv \in Environments
    /\ local = None
    /\ global = None
    /\ installPath = None
    /\ pathResult = None

NextSettings == New \/ Path

InitSpecSettings == InitSettings /\ RunIdle /\ UpdateIdle

SpecSettings == InitSpecSettings /\ [][NextSettings]_vars

InitSpecRun == InitRun /\ SettingsIdle /\ UpdateIdle

SpecRun == InitSpecRun /\ [][NextRun]_vars

InitSpecResolve == InitResolve /\ SettingsIdle /\ UpdateIdle

SpecResolve == InitSpecResolve /\ [][NextResolve]_vars

InitSpecUpdate == InitUpdate /\ SettingsIdle /\ RunIdle

SpecUpdate == InitSpecUpdate /\ [][NextUpdate]_vars

(***************************************************************************)
(* Properties of the settings resolver, checked under SpecSettings.        *)
(***************************************************************************)
\* The three layers of the current state, in precedence order.
Layers ==
    LET self == [local |-> local, global |-> global]
    IN  <<local_path_config(self), env_path_config(osEnv), global_path_config(self)>>
LocalLayer == Layers[1]
EnvLayer == Layers[2]
GlobalLayer == Layers[3]

\* A layer contributes when it has an explicit path or a use-system flag.
Contributes(layer) == is_some(layer[1]) \/ is_some(layer[2])
Deciding == {i \in 1..3 : Contributes(Layers[i])}
FirstDeciding == CHOOSE i \in Deciding : \A j \in Deciding : i <= j

\* Where a path string resolves to: anchored at the working directory unless it
\* is absolute already; absolutization of the empty path fails, which is "none".
ResolvedAt(p) ==
    IF p = "" THEN None
    ELSE IF p \in AbsolutePaths THEN Some(<<p>>)
    ELSE Some(<<"cwd", p>>)

\* What one layer alone resolves to.
LayerResult(layer) ==
    LET use_system == IF is_some(layer[2]) THEN layer[2].v ELSE is_none(layer[1])
    IN  IF use_system THEN None
        ELSE IF is_some(layer[1]) THEN ResolvedAt(layer[1].v)
        ELSE Some(<<"cwd", ".bundle">>)

\* C2: BundlerSettings::path decides by whole-layer precedence local > environment
\* > global: the result is what the first layer with an explicit path or a use-system
\* flag resolves to on its own, whatever the later layers hold.  Local {path: bar}
\* with global {path: foo} resolves to cwd/bar; a deciding layer with use-system =
\* false and no path resolves to cwd/.bundle.
C2_WholeLayerPrecedence ==
    spc = "resolved" /\ Deciding # {} =>
        /\ pathResult = LayerResult(Layers[FirstDeciding])
        /\ (LocalLayer[1] = Some("bar") /\ is_none(LocalLayer[2])
                => pathResult = Some(<<"cwd", "bar">>))
        /\ (is_none(Layers[FirstDeciding][1]) /\ Layers[FirstDeciding][2] = Some(FALSE)
                => pathResult = Some(<<"cwd", ".bundle">>))

\* C2 witness: local {path: bar} decided although the environment and the global file
\* both set a path of their own.
C2_Witness ==
    /\ spc = "resolved"
    /\ LocalLayer[1] = Some("bar") /\ is_none(LocalLayer[2])
    /\ EnvLayer[1] = Some("x")
    /\ GlobalLayer[1] = Some("foo")
    /\ pathResult = Some(<<"cwd", "bar">>)

\* C3: whenever the resolved policy has use_system_gems = true the resolved path is
\* none, whatever its explicit path; a deciding layer whose use-system flag is true
\* yields none even when it sets a path too, and even when a later layer sets one.
C3_SystemMeansNone ==
    spc = "resolved" =>
        /\ (is_some(installPath) /\ installPath.v.use_system_gems => pathResult = None)
        /\ (Deciding # {} /\ Layers[FirstDeciding][2] = Some(TRUE) => pathResult = None)
        /\ (LocalLayer[2] = Some(TRUE) => pathResult = None)

\* C3 witness: local sets use-system = true and an explicit path, the global file sets
\* a path, and the result is none.
C3_Witness ==
    /\ spc = "resolved"
    /\ LocalLayer[2] = Some(TRUE) /\ LocalLayer[1] = Some("bar")
    /\ GlobalLayer[1] = Some("foo")
    /\ installPath = Some(InstallPath(Some("bar"), TRUE))
    /\ pathResult = None

\* The deployment flags of the three layers, in order, and the first one present.
DeploymentFlags == <<LocalLayer[3], EnvLayer[3], GlobalLayer[3]>>
FlagsPresent == {i \in 1..3 : is_some(DeploymentFlags[i])}
FirstFlag == CHOOSE i \in FlagsPresent : \A j \in FlagsPresent : i <= j

\* The layers with every deployment flag removed.
WithoutDeployment(layers) == [i \in 1..3 |-> <<layers[i][1], layers[i][2], None>>]

\* C4: the deployment flag matters only when no layer has a path or a use-system
\* flag.  Then the first flag present in the order local, environment, global
\* decides: true resolves to cwd/vendor/bundle, false or no flag at all to none.
\* When a layer has a path or a use-system flag, the result is the one the same
\* layers give with every deployment flag removed.
C4_DeploymentFallback ==
    spc = "resolved" =>
        /\ (Deciding = {} /\ FlagsPresent = {} => pathResult = None)
        /\ (Deciding = {} /\ FlagsPresent # {} =>
                pathResult = IF DeploymentFlags[FirstFlag].v
                             THEN Some(<<"cwd", "vendor/bundle">>)
                             ELSE None)
        /\ (Deciding # {} =>
                LET p == path_policy(WithoutDeployment(Layers), 1, None)
                IN  /\ is_some(p)
                    /\ pathResult = InstallPath_path(p.v))
        /\ (LocalLayer[3] = Some(TRUE) /\ ~Contributes(LocalLayer) /\ EnvLayer[1] = Some("x")
                /\ is_none(EnvLayer[2]) => pathResult = Some(<<"cwd", "x">>))

\* C4 witness: local says deployment = false, the global file says deployment = true,
\* no layer has a path or a use-system flag, and the result is none.
C4_Witness ==
    /\ spc = "resolved"
    /\ Deciding = {}
    /\ LocalLayer[3] = Some(FALSE)
    /\ GlobalLayer[3] = Some(TRUE)
    /\ pathResult = None

\* C5: loading a configuration layer never fails: whatever the two .bundle/config
\* files hold (absent, unreadable, unparsable, an empty document stream, a root that
\* is not a mapping), BundlerSettings::new returns and does not panic.
C5_LoadNeverFails == spc # "panicked"

\* The environment with one variable set to Unicode text.
EnvWith(env, key, text) == [env EXCEPT ![key] = EnvText(text)]
Unparsable(v) == v.t = "unicode" /\ v.s \notin {"true", "false"}
ResolveWith(env) == BundlerSettings_path([local |-> local, global |-> global], env)

Mentions(pairs, n) == {i \in 1..Len(pairs) : pairs[i][1] = n}
LastValue(pairs, n) ==
    pairs[CHOOSE i \in Mentions(pairs, n) : \A j \in Mentions(pairs, n) : j <= i][2]
Unsets(n) == \E i \in 1..Len(unset) : unset[i] = n

\* The value the last phase that mentions a name leaves it with: the last override of
\* it, else the last pair of the set list for it, else none if it is unset, else the
\* caller's own value.
LastPhaseValue(n) ==
    IF Mentions(invocation.env, n) # {} THEN Some(LastValue(invocation.env, n))
    ELSE IF Mentions(set, n) # {} THEN Some(LastValue(set, n))
    ELSE IF Unsets(n) THEN None
    ELSE procEnv[n]

\* C1: the child's environment is built by removing the unset names, then applying
\* the set list, then applying invocation.env: whenever a child is launched, every
\* variable has the value the last phase that mentions it gave it, so an override
\* beats set and unset, and a later override beats an earlier one of the same name.
C1_EnvMergeOrder ==
    [][ (child'.spawned /\ ~child.spawned) =>
            \A n \in Names : child'.env[n] = LastPhaseValue(n) ]_vars

\* C1 witness: the command is built from a plan that unsets PATH and sets it, and from
\* two overrides of PATH with different values; its child would see the second.
C1_Witness ==
    /\ rpc = "dispatch"
    /\ Unsets("PATH")
    /\ Mentions(set, "PATH") # {}
    /\ Len(invocation.env) = 2
    /\ invocation.env[1][1] = "PATH" /\ invocation.env[2][1] = "PATH"
    /\ invocation.env[1][2] # invocation.env[2][2]
    /\ LastValue(set, "PATH") # invocation.env[2][2]
    /\ child_env(cmd)["PATH"] = Some(invocation.env[2][2])

C7_NoLaunchWithoutRuntime ==
    /\ [](envFetched \/ cmdBuilt \/ launchAttempted \/ child.spawned => rubyInstalled)
    /\ [](result = ResultErr("InstallError") =>
            installerInvoked /\ ~envFetched /\ ~cmdBuilt /\ ~launchAttempted /\ ~child.spawned)
    /\ [](result = ResultErr("NoMatchingRuby") =>
            ~rubyInstalled /\ ~envFetched /\ ~cmdBuilt /\ ~launchAttempted /\ ~child.spawned)
    /\ [][installerInvoked' /\ ~installerInvoked => ~rubyInstalled /\ ~no_install]_vars
    /\ [][rpc = "run_no_install" /\ ~rubyInstalled =>
            rpc' = "returned" /\ result' = ResultErr("NoMatchingRuby")]_vars

\* C7 witness: the installer ran and returned, no runtime matches afterwards, and the
\* call returned NoMatchingRuby with nothing fetched, built or launched.
C7_Witness ==
    /\ installerInvoked
    /\ rpc = "returned"
    /\ result = ResultErr("NoMatchingRuby")
    /\ ~envFetched /\ ~cmdBuilt /\ ~launchAttempted

(***************************************************************************)
(* Properties of resolve_tool_on_windows, checked under SpecResolve.       *)
(***************************************************************************)
Tool == invocation.program.executable_path

\* The directories of the search path the set list gives the launch (its PATH entry,
\* the first if there are several; the empty path if there is none).
PlanPathEntries == Mentions(set, "PATH")
PlanPath ==
    IF PlanPathEntries = {} THEN <<>>
    ELSE set[CHOOSE i \in PlanPathEntries : \A j \in PlanPathEntries : i <= j][2]
PlanDirs == split_paths(PlanPath)

\* The candidates that exist, as (directory index, extension index).
ExtensionRank == <<"exe", "cmd", "bat">>
Existing ==
    { p \in (1..Len(PlanDirs)) \X (1..3) :
        FilePath(PlanDirs[p[1]], Tool.name, Some(ExtensionRank[p[2]])) \in files }
Before(p, q) == p[1] < q[1] \/ (p[1] = q[1] /\ p[2] <= q[2])
FirstExisting == CHOOSE p \in Existing : \A q \in Existing : Before(p, q)

Begins == upc = "idle" /\ now_secs' = now /\ now' = now /\ upc' \in {"idle", "write"}
    /\ checkOutcome' = checkOutcome
Recent == is_some(timestampFile) /\ now >= timestampFile.v /\ now - timestampFile.v < 3600

\* C10: a call made less than 3600 seconds after the recorded timestamp starts no
\* update check and leaves the timestamp as it is; any other call (no file, 3600
\* seconds or more since the timestamp, a timestamp in the future) goes on to write
\* the current time into the file, which is done before the update check starts; so
\* any two update checks start at least 3600 seconds apart, however the earlier ended.
C10_UpdateRateLimit ==
    /\ [][Begins /\ Recent => upc' = "idle" /\ UNCHANGED <<timestampFile, checkTimes>>]_vars
    /\ [][Begins /\ ~Recent => upc' = "write"]_vars
    /\ [][upc = "write" => upc' = "check" /\ timestampFile' = Some(now_secs)]_vars
    /\ [](upc \in {"check", "checking"} => timestampFile = Some(now_secs))
    /\ [][checkTimes' # checkTimes => upc = "check" /\ timestampFile = Some(now)]_vars
    /\ [](\A i, j \in 1..Len(checkTimes) : i < j => checkTimes[j] - checkTimes[i] >= 3600)

\* C10 witness: a check started, ended in failure, and a later call exactly 3600
\* seconds after it started the second check.
C10_Witness ==
    /\ Len(checkTimes) = 2
    /\ checkTimes[2] - checkTimes[1] = 3600
    /\ upc = "checking"
    /\ checkOutcome = "update failed"

====
